---- MODULE Spec2Model ----
(***************************************************************************)
(* The list/item lifecycle of src/app.py (a nanodjango todo application):  *)
(* the two tables TodoList and TodoItem, the clock, and one action per     *)
(* view (home, create_list, list_detail, add_item, edit_item_form,         *)
(* update_item, cancel_edit, delete_item).  Every view runs to completion  *)
(* in one step, but in SpecSweep, SpecAdds and SpecMaterialize, where      *)
(* create_list, add_item and list_detail are served one database statement *)
(* at a time for two requests at once.  Time is counted in days.  Texts,   *)
(* names and identifiers are sequences of one-character strings.           *)
(***************************************************************************)
EXTENDS Integers, Sequences, FiniteSets, TLC

(***************************************************************************)
(* Bounds of the model.                                                    *)
(***************************************************************************)
\* The last day the clock reaches.
MaxTime == 31
\* The number of items ever created (item ids are 1..MaxItems).
MaxItems == 2
\* The last reading of the clock when every request reads another time.
MaxOrderTime == 4

(***************************************************************************)
(* Program constants.                                                      *)
(***************************************************************************)
\* timedelta(days=30)
thirty_days == 30
\* str(list_id)[:8]
PrefixLen == 8

(***************************************************************************)
(* Values.                                                                 *)
(***************************************************************************)
\* The days at which the clock is read: day 0, day 2 and day MaxTime, so
\* that a row can be 2, 29 or 31 days old.
ClockValues == {0, 2, MaxTime}

Whitespace == {" "}

\* The texts a client submits: empty, whitespace only, a text, the same text
\* in the other case between spaces, and another text.
Texts == {<<>>, <<" ">>, <<"a">>, <<" ", "A", " ">>, <<"b">>}

\* The texts with neither whitespace nor capitals.
PlainTexts == {<<"a">>}

\* The canonical textual form of a UUID: 8-4-4-4-12 characters.
Uuid(a, b) ==
    [i \in 1..36 |-> IF i \in {9, 14, 19, 24} THEN "-"
                     ELSE IF i <= 8 THEN a ELSE b]

ListIds == {Uuid("a", "b"), Uuid("b", "a")}
ItemIds == 1..MaxItems
Names == {<<"G">>, <<"H">>}

\* A form field of a request: absent (request.POST.get gives None) or a string.
Missing == [present |-> FALSE, value |-> <<>>]
Given(s) == [present |-> TRUE, value |-> s]
\* Python truthiness of request.POST.get(...): None and "" are false.
Truthy(f) == f.present /\ f.value # <<>>

NameInputs == {Missing} \cup {Given(n) : n \in Names}
OneNameInputs == {Missing, Given(<<"G">>)}
IdInputs == {Missing} \cup {Given(i) : i \in ListIds}
TextInputs == {Missing} \cup {Given(s) : s \in Texts}
PlainTextInputs == {Missing} \cup {Given(s) : s \in PlainTexts}

(***************************************************************************)
(* str.strip() and str.lower().                                            *)
(***************************************************************************)
RECURSIVE lstrip(_)
lstrip(s) ==
    IF s # <<>> /\ Head(s) \in Whitespace THEN lstrip(Tail(s)) ELSE s

RECURSIVE rstrip(_)
rstrip(s) ==
    IF s # <<>> /\ s[Len(s)] \in Whitespace
    THEN rstrip(SubSeq(s, 1, Len(s) - 1))
    ELSE s

strip(s) == rstrip(lstrip(s))

lower_char(c) == IF c = "A" THEN "a" ELSE c

lower(s) == [i \in 1..Len(s) |-> lower_char(s[i])]

(***************************************************************************)
(* State.                                                                  *)
(***************************************************************************)
VARIABLES
    lists,       \* the rows of TodoList
    items,       \* the rows of TodoItem
    now,         \* timezone.now(), in days
    next_item,   \* the number of item ids uuid.uuid4 has handed out
    last,        \* the response to the last request
    inflight     \* the requests that are being served one statement at a time

vars == <<lists, items, now, next_item, last, inflight>>

(***************************************************************************)
(* The persistence layer: what the ORM calls of the views do to the rows.  *)
(***************************************************************************)
\* TodoList.objects.filter(id=list_id)
ListRows(ls, list_id) == {r \in ls : r.id = list_id}

\* todo_list.items.all(), TodoItem.objects.filter(todo_list_id=list_id)
ListItems(its, list_id) == {i \in its : i.todo_list = list_id}

\* Mutant of ItemRows: the filter on the list is forgotten.
ItemRows_any_list(its, list_id, item_id) == {i \in its : i.id = item_id}

\* TodoItem.objects.filter(id=item_id, todo_list_id=list_id)
ItemRows(its, list_id, item_id) ==
    {i \in its : i.id = item_id /\ i.todo_list = list_id}

\* TodoList.objects.create(id=..., name=...): auto_now_add sets created_at,
\* auto_now sets updated_at.
CreateList(ls, list_id, name, t) ==
    ls \cup {[id |-> list_id, name |-> name,
              created_at |-> t, updated_at |-> t]}

\* Mutant of GetOrCreateList: update_or_create, an existing list is renamed.
GetOrCreateList_renames(ls, list_id, name, t) ==
    IF ListRows(ls, list_id) # {}
    THEN {IF r.id = list_id THEN [r EXCEPT !.name = name] ELSE r : r \in ls}
    ELSE CreateList(ls, list_id, name, t)

\* try: TodoList.objects.get(id=list_id)
\* except TodoList.DoesNotExist: TodoList.objects.create(id=list_id, name=name)
GetOrCreateList(ls, list_id, name, t) ==
    IF ListRows(ls, list_id) # {}
    THEN ls
    ELSE CreateList(ls, list_id, name, t)

\* Mutant of TouchList: the save is forgotten.
TouchList_not_saved(ls, list_id, t) == ls

\* todo_list.save(update_fields=['updated_at']): auto_now sets updated_at.
TouchList(ls, list_id, t) ==
    {IF r.id = list_id THEN [r EXCEPT !.updated_at = t] ELSE r : r \in ls}

\* TodoItem.objects.create(todo_list=..., text=...)
CreateItem(its, item_id, list_id, text, t) ==
    its \cup {[id |-> item_id, todo_list |-> list_id, text |-> text,
               created_at |-> t, updated_at |-> t]}

\* Mutant of SaveItem: a text that another item of the list has is not saved.
SaveItem_unless_duplicate(its, item_id, text, t) ==
    IF \E i, j \in its :
           /\ i.id = item_id /\ j.id # item_id
           /\ j.todo_list = i.todo_list
           /\ lower(j.text) = lower(text)
    THEN its
    ELSE {IF i.id = item_id THEN [i EXCEPT !.text = text, !.updated_at = t]
          ELSE i : i \in its}

\* Mutant of SaveItem: auto_now is on created_at instead of updated_at.
SaveItem_auto_now_on_created(its, item_id, text, t) ==
    {IF i.id = item_id THEN [i EXCEPT !.text = text, !.created_at = t] ELSE i :
     i \in its}

\* item.text = text; item.save()
SaveItem(its, item_id, text, t) ==
    {IF i.id = item_id THEN [i EXCEPT !.text = text, !.updated_at = t] ELSE i :
     i \in its}

\* item.delete()
DeleteItem(its, item_id) == {i \in its : i.id # item_id}

\* Mutant of IsOld: a list is old after a day.
IsOld_after_a_day(r, t) == r.updated_at < t - 1

\* Mutant of IsOld: the filter reads created_at.
IsOld_by_created_at(r, t) == r.created_at < t - thirty_days

\* updated_at__lt=thirty_days_ago, with thirty_days_ago = now - 30 days
IsOld(r, t) == r.updated_at < t - thirty_days

\* TodoList.objects.filter(updated_at__lt=thirty_days_ago)
OldLists(ls, t) == {r \in ls : IsOld(r, t)}

\* old_lists.delete(): the rows of TodoList that remain
SweepLists(ls, t) == ls \ OldLists(ls, t)

\* Mutant of SweepItems: the foreign key does not cascade.
SweepItems_no_cascade(its, ls, t) == its

\* old_lists.delete(): on_delete=CASCADE removes the items of the deleted lists
SweepItems(its, ls, t) ==
    {i \in its : \A r \in OldLists(ls, t) : i.todo_list # r.id}

\* Mutant of IsDuplicate: the comparison is case-sensitive.
IsDuplicate_case_sensitive(its, list_id, text_stripped) ==
    \E existing_item \in ListItems(its, list_id) :
        existing_item.text = text_stripped

\* The duplicate check of add_item: existing_item.text.lower() ==
\* text_stripped.lower() for some item of the list.
IsDuplicate(its, list_id, text_stripped) ==
    \E existing_item \in ListItems(its, list_id) :
        lower(existing_item.text) = lower(text_stripped)

\* Mutant of ItemOrders: the items are ordered by updated_at.
ItemOrders_by_updated_at(its, list_id) ==
    LET shown == ListItems(its, list_id)
        n == Cardinality(shown)
    IN  {s \in [1..n -> shown] :
            /\ \A a, b \in 1..n : a # b => s[a] # s[b]
            /\ \A a, b \in 1..n : a < b => s[a].updated_at <= s[b].updated_at}

\* {% for item in todo_list.items.all %} under ordering = ['created_at']: the
\* sequences in which the items of a list can be shown.  Rows with the same
\* created_at come in an order the database chooses.
ItemOrders(its, list_id) ==
    LET shown == ListItems(its, list_id)
        n == Cardinality(shown)
    IN  {s \in [1..n -> shown] :
            /\ \A a, b \in 1..n : a # b => s[a] # s[b]
            /\ \A a, b \in 1..n : a < b => s[a].created_at <= s[b].created_at}

\* Mutant of FallbackName: the whole identifier, not its first 8 characters.
FallbackName_whole_id(list_id) == <<"L", "i", "s", "t", " ">> \o list_id

\* f"List {str(list_id)[:8]}"
FallbackName(list_id) ==
    <<"L", "i", "s", "t", " ">> \o SubSeq(list_id, 1, PrefixLen)

\* Mutant of IsFirstItem: the count is over the items of all lists.
IsFirstItem_any_list(its, list_id) == Cardinality(its) = 1

\* todo_list.items.count() == 1, after the item was created
IsFirstItem(its, list_id) == Cardinality(ListItems(its, list_id)) = 1

\* Mutant of NoItemsLeft: the filter on the list is forgotten.
NoItemsLeft_any_list(its, list_id) == its = {}

\* not TodoItem.objects.filter(todo_list_id=list_id).exists()
NoItemsLeft(its, list_id) == ListItems(its, list_id) = {}

(***************************************************************************)
(* Responses.                                                              *)
(***************************************************************************)
\* What a view answered: the view and the request's method, the status, what
\* the body renders, the HX-Reswap and HX-Retarget headers, the id of the
\* item the body renders (0 when it renders none), and the number of old
\* lists create_list printed that it deletes (0 when it printed nothing).
Response(op, method, status, body, reswap, retarget, item, printed) ==
    [op |-> op, method |-> method, status |-> status, body |-> body,
     reswap |-> reswap, retarget |-> retarget, item |-> item,
     printed |-> printed]

NoRequest == Response("none", "", 0, "", "", "", 0, 0)

\* Mutant of NotFound: a missing row is answered as a success with no content.
NotFound_as_success(op, method) == Response(op, method, 200, "", "", "", 0, 0)

\* get_object_or_404 raised Http404
NotFound(op, method) == Response(op, method, 404, "", "", "", 0, 0)

\* HttpResponse("")
Empty(op, method) == Response(op, method, 200, "", "", "", 0, 0)

\* TemplateResponse(request, "partials/todo_item.html", {"item": item})
ItemPartial(op, method, reswap, item_id) ==
    Response(op, method, 200, "item", reswap, "", item_id, 0)

\* The requests to create_list that are served at the same time.
Workers == {1, 2}

\* A request to create_list that is being served: the statement it is at, its
\* form fields, its thirty_days_ago, the primary keys that old_lists.delete()
\* selected, its status, and the rows that were stored when the first of the
\* requests served together arrived.
CreateListRequest(pc, name, list_id, thirty_days_ago, old_pks, status, base_lists, base_items) ==
    [pc |-> pc, name |-> name, list_id |-> list_id,
     thirty_days_ago |-> thirty_days_ago, old_pks |-> old_pks,
     status |-> status, base_lists |-> base_lists, base_items |-> base_items]

IdleRequest == CreateListRequest("idle", Missing, Missing, 0, {}, 0, {}, {})

Init ==
    /\ lists = {}
    /\ items = {}
    /\ now = 0
    /\ next_item = 0
    /\ last = NoRequest
    /\ inflight = [w \in Workers |-> IdleRequest]

(***************************************************************************)
(* The views.                                                              *)
(***************************************************************************)
home ==
    /\ last' = Response("home", "GET", 200, "page", "", "", 0, 0)
    /\ UNCHANGED <<lists, items, now, next_item, inflight>>

create_list(method, name, list_id) ==
    /\ IF method = "POST"
       THEN LET deleted_count == Cardinality(OldLists(lists, now))
                swept_lists == SweepLists(lists, now)
                swept_items == SweepItems(items, lists, now)
            IN  IF Truthy(name) /\ Truthy(list_id)
                THEN /\ lists' = GetOrCreateList(swept_lists, list_id.value,
                                                 name.value, now)
                     /\ items' = swept_items
                     /\ last' = Response("create_list", method, 200, "OK", "",
                                         "", 0, deleted_count)
                ELSE /\ lists' = swept_lists
                     /\ items' = swept_items
                     /\ last' = Response("create_list", method, 200, "", "",
                                         "", 0, deleted_count)
       ELSE /\ last' = Empty("create_list", method)
            /\ UNCHANGED <<lists, items>>
    /\ UNCHANGED <<now, next_item, inflight>>

list_detail(list_id) ==
    /\ lists' = IF ListRows(lists, list_id) # {}
                THEN TouchList(lists, list_id, now)
                ELSE CreateList(lists, list_id, FallbackName(list_id), now)
    /\ last' = Response("list_detail", "GET", 200, "page", "", "", 0, 0)
    /\ UNCHANGED <<items, now, next_item, inflight>>

add_item(method, list_id, text) ==
    /\ IF method # "POST"
       THEN /\ last' = Empty("add_item", method)
            /\ UNCHANGED <<lists, items, next_item>>
       ELSE IF ListRows(lists, list_id) = {}
       THEN /\ last' = NotFound("add_item", method)
            /\ UNCHANGED <<lists, items, next_item>>
       ELSE IF ~Truthy(text)
       THEN /\ last' = Empty("add_item", method)
            /\ UNCHANGED <<lists, items, next_item>>
       ELSE LET text_stripped == strip(text.value)
            IN  IF IsDuplicate(items, list_id, text_stripped)
                THEN /\ last' = Response("add_item", method, 200, "duplicate",
                                         "innerHTML", "#message-container", 0,
                                         0)
                     /\ UNCHANGED <<lists, items, next_item>>
                ELSE /\ next_item < MaxItems
                     /\ next_item' = next_item + 1
                     /\ items' = CreateItem(items, next_item + 1, list_id,
                                            text_stripped, now)
                     /\ lists' = TouchList(lists, list_id, now)
                     /\ last' = ItemPartial("add_item", method,
                                            IF IsFirstItem(items', list_id)
                                            THEN "innerHTML" ELSE "",
                                            next_item + 1)
    /\ UNCHANGED <<now, inflight>>

\* Mutant of edit_item_form: the view marks the list as accessed, as
\* list_detail does.
edit_item_form_touches(list_id, item_id) ==
    /\ last' = IF ItemRows(items, list_id, item_id) = {}
               THEN NotFound("edit_item_form", "GET")
               ELSE Response("edit_item_form", "GET", 200, "form", "", "",
                             item_id, 0)
    /\ lists' = TouchList(lists, list_id, now)
    /\ UNCHANGED <<items, now, next_item, inflight>>

edit_item_form(list_id, item_id) ==
    /\ last' = IF ItemRows(items, list_id, item_id) = {}
               THEN NotFound("edit_item_form", "GET")
               ELSE Response("edit_item_form", "GET", 200, "form", "", "",
                             item_id, 0)
    /\ UNCHANGED <<lists, items, now, next_item, inflight>>

update_item(method, list_id, item_id, text) ==
    /\ IF method # "PUT"
       THEN /\ last' = Empty("update_item", method)
            /\ UNCHANGED <<lists, items>>
       ELSE IF ItemRows(items, list_id, item_id) = {}
       THEN /\ last' = NotFound("update_item", method)
            /\ UNCHANGED <<lists, items>>
       ELSE /\ IF Truthy(text)
               THEN /\ items' = SaveItem(items, item_id, text.value, now)
                    /\ lists' = TouchList(lists, list_id, now)
               ELSE UNCHANGED <<lists, items>>
            /\ last' = ItemPartial("update_item", method, "", item_id)
    /\ UNCHANGED <<now, next_item, inflight>>

cancel_edit(list_id, item_id) ==
    /\ last' = IF ItemRows(items, list_id, item_id) = {}
               THEN NotFound("cancel_edit", "GET")
               ELSE ItemPartial("cancel_edit", "GET", "", item_id)
    /\ UNCHANGED <<lists, items, now, next_item, inflight>>

\* Mutant of delete_item: a list that has no item left is deleted with its
\* last item.
delete_item_drops_empty_list(method, list_id, item_id) ==
    /\ IF method # "DELETE"
       THEN /\ last' = Empty("delete_item", method)
            /\ UNCHANGED <<lists, items>>
       ELSE IF ItemRows(items, list_id, item_id) = {}
       THEN /\ last' = NotFound("delete_item", method)
            /\ UNCHANGED <<lists, items>>
       ELSE /\ items' = DeleteItem(items, item_id)
            /\ lists' = IF NoItemsLeft(items', list_id)
                        THEN lists \ ListRows(lists, list_id)
                        ELSE TouchList(lists, list_id, now)
            /\ last' = IF NoItemsLeft(items', list_id)
                       THEN Response("delete_item", method, 200,
                                     "empty_state", "", "", 0, 0)
                       ELSE Empty("delete_item", method)
    /\ UNCHANGED <<now, next_item, inflight>>

delete_item(method, list_id, item_id) ==
    /\ IF method # "DELETE"
       THEN /\ last' = Empty("delete_item", method)
            /\ UNCHANGED <<lists, items>>
       ELSE IF ItemRows(items, list_id, item_id) = {}
       THEN /\ last' = NotFound("delete_item", method)
            /\ UNCHANGED <<lists, items>>
       ELSE /\ items' = DeleteItem(items, item_id)
            /\ lists' = TouchList(lists, list_id, now)
            /\ last' = IF NoItemsLeft(items', list_id)
                       THEN Response("delete_item", method, 200,
                                     "empty_state", "", "", 0, 0)
                       ELSE Empty("delete_item", method)
    /\ UNCHANGED <<now, next_item, inflight>>

\* Time passes between two requests.
Tick(t) ==
    /\ t > now
    /\ now' = t
    /\ last' = NoRequest
    /\ UNCHANGED <<lists, items, next_item, inflight>>

\* One request, its form fields drawn from NameIn and TextIn.  A request
\* with another method than the one the view handles carries no field: the
\* view does not read any.
Requests(NameIn, TextIn) ==
    \/ home
    \/ \E name \in NameIn, list_id \in IdInputs :
           create_list("POST", name, list_id)
    \/ create_list("GET", Missing, Missing)
    \/ \E list_id \in ListIds : list_detail(list_id)
    \/ \E list_id \in ListIds, text \in TextIn :
           add_item("POST", list_id, text)
    \/ \E list_id \in ListIds : add_item("GET", list_id, Missing)
    \/ \E list_id \in ListIds, item_id \in ItemIds :
           edit_item_form(list_id, item_id)
    \/ \E list_id \in ListIds, item_id \in ItemIds, text \in TextIn :
           update_item("PUT", list_id, item_id, text)
    \/ \E list_id \in ListIds, item_id \in ItemIds :
           update_item("GET", list_id, item_id, Missing)
    \/ \E list_id \in ListIds, item_id \in ItemIds :
           cancel_edit(list_id, item_id)
    \/ \E list_id \in ListIds, item_id \in ItemIds :
           delete_item("DELETE", list_id, item_id)
    \/ \E list_id \in ListIds, item_id \in ItemIds :
           delete_item("GET", list_id, item_id)

(***************************************************************************)
(* Spec: the lifecycle over time.  Requests arrive at day 0, day 2 and day  *)
(* MaxTime, and submit plain texts.                                        *)
(***************************************************************************)
Next ==
    \/ Requests(NameInputs, PlainTextInputs)
    \/ \E t \in ClockValues : Tick(t)

Spec == Init /\ [][Next]_vars

\* Spec with time that keeps advancing, up to MaxTime, and create-list POSTs
\* that keep arriving.
SpecRetention ==
    /\ Init /\ [][Next]_vars
    /\ WF_vars(\E t \in ClockValues : Tick(t))
    /\ WF_vars(\E name \in NameInputs, list_id \in IdInputs :
                   create_list("POST", name, list_id))

(***************************************************************************)
(* SpecTexts: the text rules.  All requests arrive at day 0, and submit    *)
(* texts with whitespace and in both cases.                                *)
(***************************************************************************)
NextTexts == Requests(OneNameInputs, TextInputs)

SpecTexts == Init /\ [][NextTexts]_vars

(***************************************************************************)
(* SpecOrder: one request per clock reading.  timezone.now() has a         *)
(* resolution of a microsecond, so two requests that are served one after  *)
(* the other read different times: here the clock advances by one after    *)
(* every request.  The texts are a text, the same text in the other case,  *)
(* and another text.                                                       *)
(***************************************************************************)
OrderClock == 0..MaxOrderTime

OrderTexts == {<<"a">>, <<"A">>, <<"b">>}

OrderTextInputs == {Missing} \cup {Given(s) : s \in OrderTexts}

NextOrder ==
    \/ last = NoRequest /\ Requests(OneNameInputs, OrderTextInputs)
    \/ last # NoRequest /\ \E t \in OrderClock : t = now + 1 /\ Tick(t)

SpecOrder == Init /\ [][NextOrder]_vars

(***************************************************************************)
(* create_list, one database statement at a time.                          *)
(***************************************************************************)
\* No request to create_list is being served.
Quiet == \A w \in Workers : inflight[w].pc = "idle"

\* The rows stored when the first of the requests served together arrived.
BaseLists(w) ==
    IF \E v \in Workers \ {w} : inflight[v].pc # "idle"
    THEN (CHOOSE r \in {inflight[v] : v \in Workers \ {w}} : r.pc # "idle")
             .base_lists
    ELSE lists

BaseItems(w) ==
    IF \E v \in Workers \ {w} : inflight[v].pc # "idle"
    THEN (CHOOSE r \in {inflight[v] : v \in Workers \ {w}} : r.pc # "idle")
             .base_items
    ELSE items

\* updated_at__lt=thirty_days_ago, for the thirty_days_ago of a request
OldListsOf(w) == OldLists(lists, inflight[w].thirty_days_ago + thirty_days)

\* The request is answered.
Answered(w, status) ==
    [inflight EXCEPT ![w].pc = "done", ![w].status = status]

\* request.method == "POST": thirty_days_ago = timezone.now() - timedelta(days=30)
create_list_begin(w, name, list_id) ==
    /\ inflight[w].pc = "idle"
    /\ inflight' = [inflight EXCEPT ![w] =
                        CreateListRequest("count", name, list_id,
                                          now - thirty_days, {}, 0,
                                          BaseLists(w), BaseItems(w))]
    /\ UNCHANGED <<lists, items, now, next_item, last>>

\* deleted_count = old_lists.count(); if deleted_count > 0
create_list_count(w) ==
    /\ inflight[w].pc = "count"
    /\ LET deleted_count == Cardinality(OldListsOf(w))
       IN  inflight' = [inflight EXCEPT ![w].pc = IF deleted_count > 0
                                                  THEN "collect" ELSE "get"]
    /\ UNCHANGED <<lists, items, now, next_item, last>>

\* old_lists.delete(), first part: the queryset is evaluated, which selects
\* the rows that the filter matches now.
create_list_collect(w) ==
    /\ inflight[w].pc = "collect"
    /\ inflight' = [inflight EXCEPT ![w].pc = "delete",
                                    ![w].old_pks = {r.id : r \in OldListsOf(w)}]
    /\ UNCHANGED <<lists, items, now, next_item, last>>

\* old_lists.delete(), second part: in one transaction, the items whose
\* todo_list is one of the selected primary keys are deleted, then the lists
\* whose id is one of them.
create_list_delete(w) ==
    /\ inflight[w].pc = "delete"
    /\ items' = {i \in items : i.todo_list \notin inflight[w].old_pks}
    /\ lists' = {r \in lists : r.id \notin inflight[w].old_pks}
    /\ inflight' = [inflight EXCEPT ![w].pc = "get"]
    /\ UNCHANGED <<now, next_item, last>>

\* if name and list_id: TodoList.objects.get(id=list_id), answered "OK" when
\* the list is stored; HttpResponse("") without the fields.
create_list_get(w) ==
    /\ inflight[w].pc = "get"
    /\ IF ~(Truthy(inflight[w].name) /\ Truthy(inflight[w].list_id))
       THEN /\ inflight' = Answered(w, 200)
            /\ last' = Empty("create_list", "POST")
       ELSE IF ListRows(lists, inflight[w].list_id.value) # {}
       THEN /\ inflight' = Answered(w, 200)
            /\ last' = Response("create_list", "POST", 200, "OK", "", "", 0, 0)
       ELSE /\ inflight' = [inflight EXCEPT ![w].pc = "create"]
            /\ UNCHANGED last
    /\ UNCHANGED <<lists, items, now, next_item>>

\* except TodoList.DoesNotExist: TodoList.objects.create(id=list_id,
\* name=name).  The insert of a primary key that is stored raises
\* IntegrityError, which no one catches: the request is answered 500.
create_list_create(w) ==
    /\ inflight[w].pc = "create"
    /\ IF ListRows(lists, inflight[w].list_id.value) # {}
       THEN /\ inflight' = Answered(w, 500)
            /\ last' = Response("create_list", "POST", 500, "", "", "", 0, 0)
            /\ UNCHANGED lists
       ELSE /\ lists' = CreateList(lists, inflight[w].list_id.value,
                                   inflight[w].name.value, now)
            /\ inflight' = Answered(w, 200)
            /\ last' = Response("create_list", "POST", 200, "OK", "", "", 0, 0)
    /\ UNCHANGED <<items, now, next_item>>

\* The requests served together have all been answered.
create_list_end ==
    /\ ~Quiet
    /\ \A w \in Workers : inflight[w].pc \in {"idle", "done"}
    /\ inflight' = [w \in Workers |-> IdleRequest]
    /\ UNCHANGED <<lists, items, now, next_item, last>>

(***************************************************************************)
(* SpecSweep: two requests to create_list at once.  Items are added and    *)
(* time passes while no request to create_list is being served.            *)
(***************************************************************************)
NextSweep ==
    \/ \E w \in Workers, name \in OneNameInputs, list_id \in IdInputs :
           create_list_begin(w, name, list_id)
    \/ \E w \in Workers : create_list_count(w)
    \/ \E w \in Workers : create_list_collect(w)
    \/ \E w \in Workers : create_list_delete(w)
    \/ \E w \in Workers : create_list_get(w)
    \/ \E w \in Workers : create_list_create(w)
    \/ create_list_end
    \/ \E list_id \in ListIds, text \in PlainTextInputs :
           Quiet /\ add_item("POST", list_id, text)
    \/ \E t \in ClockValues : Quiet /\ Tick(t)

SpecSweep == Init /\ [][NextSweep]_vars

(***************************************************************************)
(* list_detail, one database statement at a time.  A request to            *)
(* list_detail is recorded as a request to create_list is, its name being  *)
(* the name under which it creates a list that is not stored.              *)
(***************************************************************************)
list_detail_begin(w, list_id) ==
    /\ inflight[w].pc = "idle"
    /\ inflight' = [inflight EXCEPT ![w] =
                        CreateListRequest("detail_get",
                                          Given(FallbackName(list_id)),
                                          Given(list_id), 0, {}, 0,
                                          BaseLists(w), BaseItems(w))]
    /\ UNCHANGED <<lists, items, now, next_item, last>>

\* try: todo_list = TodoList.objects.get(id=list_id)
list_detail_get(w) ==
    /\ inflight[w].pc = "detail_get"
    /\ inflight' = [inflight EXCEPT ![w].pc =
                        IF ListRows(lists, inflight[w].list_id.value) # {}
                        THEN "detail_save" ELSE "detail_create"]
    /\ UNCHANGED <<lists, items, now, next_item, last>>

\* todo_list.save(update_fields=['updated_at']).  When the row is not stored
\* any more the update affects no row: DatabaseError, which the except
\* clause does not catch, and the request is answered 500.
list_detail_save(w) ==
    /\ inflight[w].pc = "detail_save"
    /\ IF ListRows(lists, inflight[w].list_id.value) = {}
       THEN /\ inflight' = Answered(w, 500)
            /\ last' = Response("list_detail", "GET", 500, "", "", "", 0, 0)
            /\ UNCHANGED lists
       ELSE /\ lists' = TouchList(lists, inflight[w].list_id.value, now)
            /\ inflight' = Answered(w, 200)
            /\ last' = Response("list_detail", "GET", 200, "page", "", "", 0,
                                0)
    /\ UNCHANGED <<items, now, next_item>>

\* except TodoList.DoesNotExist: TodoList.objects.create(id=list_id,
\* name=f"List {str(list_id)[:8]}").  The insert of a primary key that is
\* stored raises IntegrityError, which no one catches: the request is
\* answered 500.
list_detail_create(w) ==
    /\ inflight[w].pc = "detail_create"
    /\ IF ListRows(lists, inflight[w].list_id.value) # {}
       THEN /\ inflight' = Answered(w, 500)
            /\ last' = Response("list_detail", "GET", 500, "", "", "", 0, 0)
            /\ UNCHANGED lists
       ELSE /\ lists' = CreateList(lists, inflight[w].list_id.value,
                                   inflight[w].name.value, now)
            /\ inflight' = Answered(w, 200)
            /\ last' = Response("list_detail", "GET", 200, "page", "", "", 0,
                                0)
    /\ UNCHANGED <<items, now, next_item>>

(***************************************************************************)
(* SpecMaterialize: two requests at once, each to create_list or to        *)
(* list_detail.  Time passes while no request is being served.             *)
(***************************************************************************)
NextMaterialize ==
    \/ \E w \in Workers, name \in OneNameInputs, list_id \in IdInputs :
           create_list_begin(w, name, list_id)
    \/ \E w \in Workers : create_list_count(w)
    \/ \E w \in Workers : create_list_collect(w)
    \/ \E w \in Workers : create_list_delete(w)
    \/ \E w \in Workers : create_list_get(w)
    \/ \E w \in Workers : create_list_create(w)
    \/ \E w \in Workers, list_id \in ListIds : list_detail_begin(w, list_id)
    \/ \E w \in Workers : list_detail_get(w)
    \/ \E w \in Workers : list_detail_save(w)
    \/ \E w \in Workers : list_detail_create(w)
    \/ create_list_end
    \/ \E t \in ClockValues : Quiet /\ Tick(t)

SpecMaterialize == Init /\ [][NextMaterialize]_vars

(***************************************************************************)
(* add_item, one database statement at a time.                             *)
(***************************************************************************)
\* A request to add_item that is being served: the statement it is at, its
\* list_id and text, its text_stripped, the id of the item it created (0 when
\* it created none), and its status.
AddItemRequest(pc, list_id, text, text_stripped, item, status) ==
    [pc |-> pc, list_id |-> list_id, text |-> text,
     text_stripped |-> text_stripped, item |-> item, status |-> status]

\* The request is answered, and the answer is the last response.  Of the
\* request, the item it created and its status are kept.
add_item_return(w, response) ==
    /\ inflight' = [inflight EXCEPT ![w] =
                        AddItemRequest("done", <<>>, Missing, <<>>,
                                       inflight[w].item, response.status)]
    /\ last' = response

\* request.method == "POST"
add_item_begin(w, list_id, text) ==
    /\ inflight[w].pc = "idle"
    /\ inflight' = [inflight EXCEPT ![w] =
                        AddItemRequest("get", list_id, text, <<>>, 0, 0)]
    /\ UNCHANGED <<lists, items, now, next_item, last>>

\* todo_list = get_object_or_404(TodoList, id=list_id); text =
\* request.POST.get("text"); if text: text_stripped = text.strip()
add_item_get(w) ==
    /\ inflight[w].pc = "get"
    /\ IF ListRows(lists, inflight[w].list_id) = {}
       THEN add_item_return(w, NotFound("add_item", "POST"))
       ELSE IF ~Truthy(inflight[w].text)
       THEN add_item_return(w, Empty("add_item", "POST"))
       ELSE /\ inflight' = [inflight EXCEPT
                               ![w].pc = "check",
                               ![w].text_stripped = strip(inflight[w].text.value)]
            /\ UNCHANGED last
    /\ UNCHANGED <<lists, items, now, next_item>>

\* for existing_item in todo_list.items.all(): one query reads the items, the
\* loop compares them.
add_item_check(w) ==
    /\ inflight[w].pc = "check"
    /\ IF IsDuplicate(items, inflight[w].list_id, inflight[w].text_stripped)
       THEN add_item_return(w, Response("add_item", "POST", 200, "duplicate",
                                        "innerHTML", "#message-container", 0,
                                        0))
       ELSE /\ inflight' = [inflight EXCEPT ![w].pc = "insert"]
            /\ UNCHANGED last
    /\ UNCHANGED <<lists, items, now, next_item>>

\* item = TodoItem.objects.create(todo_list=todo_list, text=text_stripped).
\* The insert of an item whose list is not stored any more violates the
\* foreign key: IntegrityError, which no one catches, and the request is
\* answered 500.
add_item_insert(w) ==
    /\ inflight[w].pc = "insert"
    /\ IF ListRows(lists, inflight[w].list_id) = {}
       THEN /\ add_item_return(w, Response("add_item", "POST", 500, "", "",
                                           "", 0, 0))
            /\ UNCHANGED <<items, next_item>>
       ELSE /\ next_item < MaxItems
            /\ next_item' = next_item + 1
            /\ items' = CreateItem(items, next_item + 1, inflight[w].list_id,
                                   inflight[w].text_stripped, now)
            /\ inflight' = [inflight EXCEPT ![w].pc = "touch",
                                            ![w].item = next_item + 1]
            /\ UNCHANGED last
    /\ UNCHANGED <<lists, now>>

\* todo_list.save(update_fields=['updated_at']).  When the row is not stored
\* any more the update affects no row: DatabaseError, which no one catches,
\* and the request is answered 500.
add_item_touch(w) ==
    /\ inflight[w].pc = "touch"
    /\ IF ListRows(lists, inflight[w].list_id) = {}
       THEN /\ add_item_return(w, Response("add_item", "POST", 500, "", "",
                                           "", 0, 0))
            /\ UNCHANGED lists
       ELSE /\ lists' = TouchList(lists, inflight[w].list_id, now)
            /\ inflight' = [inflight EXCEPT ![w].pc = "count_items"]
            /\ UNCHANGED last
    /\ UNCHANGED <<items, now, next_item>>

\* if todo_list.items.count() == 1: response["HX-Reswap"] = "innerHTML"
add_item_count(w) ==
    /\ inflight[w].pc = "count_items"
    /\ add_item_return(w, ItemPartial("add_item", "POST",
                                      IF IsFirstItem(items, inflight[w].list_id)
                                      THEN "innerHTML" ELSE "",
                                      inflight[w].item))
    /\ UNCHANGED <<lists, items, now, next_item>>

\* The requests served together have all been answered.
add_item_end ==
    /\ \E w \in Workers : inflight[w].pc = "done"
    /\ \A w \in Workers : inflight[w].pc \in {"idle", "done"}
    /\ inflight' = [w \in Workers |-> IdleRequest]
    /\ UNCHANGED <<lists, items, now, next_item, last>>

(***************************************************************************)
(* SpecAdds: two requests to add_item at once, while lists are created and *)
(* swept.  Time passes while no request to add_item is being served.       *)
(***************************************************************************)
\* The texts of the requests served together: a text, and the same text in
\* the other case.
AddTextInputs == {Given(<<"a">>), Given(<<"A">>)}

NextAdds ==
    \/ \E w \in Workers, list_id \in ListIds, text \in AddTextInputs :
           add_item_begin(w, list_id, text)
    \/ \E w \in Workers : add_item_get(w)
    \/ \E w \in Workers : add_item_check(w)
    \/ \E w \in Workers : add_item_insert(w)
    \/ \E w \in Workers : add_item_touch(w)
    \/ \E w \in Workers : add_item_count(w)
    \/ add_item_end
    \/ \E list_id \in IdInputs :
           create_list("POST", Given(<<"G">>), list_id)
    \/ \E t \in ClockValues : Quiet /\ Tick(t)

SpecAdds == Init /\ [][NextAdds]_vars

(***************************************************************************)
(* The claims.                                                             *)
(***************************************************************************)
\* A text after trimming leading/trailing whitespace and case-folding.
TrimmedFolded(s) == lower(strip(s))

\* The step is the answer of view op to a request with the given method.
Answers(op, method) == last'.op = op /\ last'.method = method

\* The response to an add-item request that created an item.
AddCreated(r) == r.op = "add_item" /\ r.body = "item"

\* The item an add-item response renders, and the items beside it in its list.
Rendered(r) == {i \in items : i.id = r.item}
Siblings(n) == ListItems(items, n.todo_list) \ {n}

\* C1, as stated: immediately after an add-item request that created an
\* item, no two items of that list have texts that are equal after trimming
\* and case-folding.
C1_NoTwoEqualTextsAfterAdd ==
    AddCreated(last) =>
        \A n \in Rendered(last) :
            \A i, j \in ListItems(items, n.todo_list) :
                i # j => TrimmedFolded(i.text) # TrimmedFolded(j.text)

\* C1, amended: immediately after an add-item request that created an item,
\* the created item's text is trimmed and is not equal, case-insensitively,
\* to the stored text of any other item of that list.
C1_NewItemDiffersFromStoredTexts ==
    AddCreated(last) =>
        \A n \in Rendered(last) :
            /\ n.text = strip(n.text)
            /\ \A i \in Siblings(n) : lower(i.text) # lower(n.text)

\* C1 witness: an add-item request created an item in a list that holds
\* another item.
C1_Witness ==
    /\ AddCreated(last)
    /\ \E n \in Rendered(last) : Siblings(n) # {}

\* C2: an add-item POST whose trimmed text equals, case-insensitively, the
\* text of an item already in the target list creates no item, leaves every
\* list and item unchanged, and answers with the duplicate notice.
C2_DuplicateRejectedWithNotice ==
    [][Answers("add_item", "POST") =>
       \A list_id \in ListIds, t \in Texts :
          ( /\ add_item("POST", list_id, Given(t))
            /\ \E e \in ListItems(items, list_id) :
                   lower(e.text) = lower(strip(t)) )
          => ( /\ items' = items
               /\ lists' = lists
               /\ last'.body = "duplicate"
               /\ last'.body \notin {"item", ""} )]_vars

\* The age of a row at the current time, in days.
Age(r) == now - r.updated_at

\* C3, as stated: a create-list POST carrying the id of a list that an
\* earlier create-list POST created (its name is one only create-list gives)
\* leaves exactly one list with that id, under the name it had.
C3_SecondCreateKeepsFirstName ==
    [][Answers("create_list", "POST") =>
       \A list_id \in ListIds, name \in Names :
          ( /\ create_list("POST", Given(name), Given(list_id))
            /\ \E r \in ListRows(lists, list_id) : r.name \in Names )
          => ( /\ Cardinality(ListRows(lists', list_id)) = 1
               /\ \A r \in ListRows(lists, list_id) :
                      \A r2 \in ListRows(lists', list_id) :
                          r2.name = r.name )]_vars

\* C3, amended: a create-list POST leaves exactly one list with its id; a
\* stored list whose updated_at is at most 30 days old is left exactly as it
\* was, and otherwise (no such list, or one older than 30 days, which the
\* sweep of this request deletes) the list is created under the request's
\* name.
C3_CreateKeepsFreshList ==
    [][Answers("create_list", "POST") =>
       \A list_id \in ListIds, name \in Names :
          create_list("POST", Given(name), Given(list_id))
          => ( /\ Cardinality(ListRows(lists', list_id)) = 1
               /\ \A r \in ListRows(lists, list_id) :
                      Age(r) <= thirty_days => ListRows(lists', list_id) = {r}
               /\ (\A r \in ListRows(lists, list_id) : Age(r) > thirty_days)
                      => ListRows(lists', list_id) =
                             {[id |-> list_id, name |-> name,
                               created_at |-> now, updated_at |-> now]} )]_vars

\* C3 witness: a create-list POST was answered OK at a time when a list that
\* create-list created earlier is stored and at most 30 days old.
C3_Witness ==
    /\ last.op = "create_list" /\ last.body = "OK"
    /\ \E r \in lists :
           r.name \in Names /\ r.created_at < now /\ Age(r) <= thirty_days

\* C4: a create-list POST deletes every list whose updated_at is more than 30
\* days old, with all its items, and no list whose updated_at is less than 30
\* days old (nor any of its items); the deletion comes before the lookup of
\* the request's own list, so a list stored under an old list's id after the
\* request is the one the request created.
C4_SweepDeletesOldListsOnly ==
    [][Answers("create_list", "POST") =>
       \A name \in NameInputs, list_id \in IdInputs :
          create_list("POST", name, list_id)
          => \A r \in lists :
               /\ Age(r) > thirty_days =>
                    /\ r \notin lists'
                    /\ \A i \in ListItems(items, r.id) : i \notin items'
                    /\ \A r2 \in ListRows(lists', r.id) :
                         /\ Truthy(name) /\ list_id = Given(r.id)
                         /\ r2 = [id |-> r.id, name |-> name.value,
                                  created_at |-> now, updated_at |-> now]
                         /\ ListItems(items', r.id) = {}
               /\ Age(r) < thirty_days =>
                    /\ r \in lists'
                    /\ ListItems(items', r.id) = ListItems(items, r.id)]_vars

\* C4 witness: a create-list POST printed that it deletes old lists while a
\* list that is 29 days old is still stored.
C4_Witness ==
    /\ last.op = "create_list" /\ last.method = "POST" /\ last.printed >= 1
    /\ \E r \in lists : Age(r) = 29

\* C5: a list-detail request leaves exactly one list with its id; it creates
\* the list, named "List " and the first 8 characters of the id, when none is
\* stored, and otherwise changes nothing of the stored list but updated_at;
\* it changes no other list.
C5_DetailMaterializesOnce ==
    [][Answers("list_detail", "GET") =>
       \A list_id \in ListIds :
          list_detail(list_id)
          => ( /\ Cardinality(ListRows(lists', list_id)) = 1
               /\ ListRows(lists, list_id) = {} =>
                      ListRows(lists', list_id) =
                          {[id |-> list_id,
                            name |-> <<"L", "i", "s", "t", " ">>
                                         \o SubSeq(list_id, 1, 8),
                            created_at |-> now, updated_at |-> now]}
               /\ \A r \in ListRows(lists, list_id) :
                      ListRows(lists', list_id) =
                          {[r EXCEPT !.updated_at = now]}
               /\ \A r \in lists : r.id # list_id => r \in lists'
               /\ \A r \in lists' : r.id # list_id => r \in lists )]_vars

\* C5 witness: a detail view was answered for a list that an earlier detail
\* view created under its fallback name.
C5_Witness ==
    /\ last.op = "list_detail"
    /\ \E r \in lists :
           /\ r.name = <<"L", "i", "s", "t", " ">> \o SubSeq(r.id, 1, 8)
           /\ r.created_at < now
           /\ r.updated_at = now

\* The list is stored and was written at the time of the request.
TouchedNow(ls, list_id) ==
    /\ ListRows(ls, list_id) # {}
    /\ \A r \in ListRows(ls, list_id) : r.updated_at = now

\* C6: every list-detail view, every add-item that created an item, every
\* edit-commit that saved a text and every delete-item that removed an item
\* ends with the list's updated_at equal to the time of the request.
C6_ReadsAndWritesTouchList ==
    [][\A list_id \in ListIds :
          /\ Answers("list_detail", "GET") =>
                 (list_detail(list_id) => TouchedNow(lists', list_id))
          /\ (Answers("add_item", "POST") /\ last'.body = "item") =>
                 \A text \in TextInputs :
                     add_item("POST", list_id, text)
                     => TouchedNow(lists', list_id)
          /\ (Answers("update_item", "PUT") /\ last'.status = 200) =>
                 \A item_id \in ItemIds, text \in TextInputs :
                     (update_item("PUT", list_id, item_id, text) /\ Truthy(text))
                     => TouchedNow(lists', list_id)
          /\ (Answers("delete_item", "DELETE") /\ last'.status = 200) =>
                 \A item_id \in ItemIds :
                     delete_item("DELETE", list_id, item_id)
                     => TouchedNow(lists', list_id)]_vars

\* C6 witness: an edit-commit saved an item of a list created on an earlier
\* day.
C6_Witness ==
    /\ last.op = "update_item" /\ last.method = "PUT" /\ last.status = 200
    /\ \E i \in items :
           /\ i.id = last.item
           /\ i.created_at < now /\ i.updated_at = now
           /\ \E r \in ListRows(lists, i.todo_list) :
                  r.created_at < now /\ r.updated_at = now

\* C7: a delete-item request that removes an item removes that item only,
\* and answers with the empty-state fragment exactly when no item of that
\* list remains, and with an empty body otherwise.
C7_EmptyStateIffNoItemLeft ==
    [][Answers("delete_item", "DELETE") =>
       \A list_id \in ListIds, item_id \in ItemIds :
          ( /\ delete_item("DELETE", list_id, item_id)
            /\ ItemRows(items, list_id, item_id) # {} )
          => ( /\ items' = items \ ItemRows(items, list_id, item_id)
               /\ last'.body = "empty_state"
                      <=> (\A i \in items' : i.todo_list # list_id)
               /\ last'.body \in {"empty_state", ""} )]_vars

\* C7 witness: a delete-item request removed an item of the only list and
\* answered with an empty body, another item remaining.
C7_Witness ==
    /\ last.op = "delete_item" /\ last.method = "DELETE"
    /\ last.status = 200 /\ last.body = ""
    /\ Cardinality(lists) = 1
    /\ items # {}

\* C8: an add-item request that created an item carries HX-Reswap: innerHTML
\* (which replaces the empty-state placeholder) exactly when the list had no
\* item before the request.
C8_ReswapIffListWasEmpty ==
    [][Answers("add_item", "POST") =>
       \A list_id \in ListIds, text \in TextInputs :
          (add_item("POST", list_id, text) /\ last'.body = "item")
          => ( last'.reswap = "innerHTML"
                   <=> (\A i \in items : i.todo_list # list_id) )]_vars

\* C8 witness: an add-item request created the first item of a list that
\* held an item before and was emptied by a delete.
C8_Witness ==
    /\ AddCreated(last) /\ last.reswap = "innerHTML"
    /\ next_item = 2
    /\ Cardinality(items) = 1
    /\ Cardinality(lists) = 1

\* C9: every item's owning list is stored.
C9_EveryItemHasItsList ==
    \A i \in items : \E r \in lists : r.id = i.todo_list

\* C9 witness: a create-list POST printed that it deletes an old list, after
\* items were created, and an item of another list is still stored.
C9_Witness ==
    /\ last.op = "create_list" /\ last.printed >= 1
    /\ next_item = 2
    /\ Cardinality(items) = 1

\* C10: every list and every item satisfies updated_at >= created_at.
C10_UpdatedNotBeforeCreated ==
    /\ \A r \in lists : r.updated_at >= r.created_at
    /\ \A i \in items : i.updated_at >= i.created_at

\* C10 witness: a list and an item were written on a later day than they
\* were created.
C10_Witness ==
    /\ \E r \in lists : r.updated_at > r.created_at
    /\ \E i \in items : i.updated_at > i.created_at

\* A submitted text that is missing, empty or whitespace only.
EmptyAfterTrim(text) == ~text.present \/ strip(text.value) = <<>>

\* C11: a list-detail view or an add-item POST that addresses a list id that
\* is not stored is not answered not-found, and the list is stored afterwards.
C11_LookupNeverNotFound ==
    [][(Answers("list_detail", "GET") \/ Answers("add_item", "POST")) =>
       \A list_id \in ListIds :
          ( /\ ListRows(lists, list_id) = {}
            /\ \/ list_detail(list_id)
               \/ \E text \in TextInputs : add_item("POST", list_id, text) )
          => ( /\ last'.status # 404
               /\ ListRows(lists', list_id) # {} )]_vars

\* C12: an add-item POST whose text is missing, empty or whitespace only
\* creates no item and leaves every list unchanged, and an item that an
\* add-item POST creates has a text of at least 1 character.
C12_EmptyAddCreatesNothing ==
    [][Answers("add_item", "POST") =>
       \A list_id \in ListIds, text \in TextInputs :
          add_item("POST", list_id, text)
          => ( /\ EmptyAfterTrim(text) => (items' = items /\ lists' = lists)
               /\ \A i \in items' \ items : Len(i.text) >= 1 )]_vars

\* C13: an edit-commit PUT whose text is missing, empty or whitespace only
\* leaves every item and every list unchanged, and the item an edit-commit
\* PUT addressed has afterwards a text that is not empty after trimming.
C13_EmptyEditChangesNothing ==
    [][Answers("update_item", "PUT") =>
       \A list_id \in ListIds, item_id \in ItemIds, text \in TextInputs :
          update_item("PUT", list_id, item_id, text)
          => ( /\ EmptyAfterTrim(text) => (items' = items /\ lists' = lists)
               /\ \A i \in ItemRows(items', list_id, item_id) :
                      strip(i.text) # <<>> )]_vars

\* C14: an edit-commit PUT with a non-empty text on an item of the addressed
\* list stores that text, as submitted, on the item and sets the item's and
\* the list's updated_at to the time of the request, whatever the texts of
\* the other items; every other item is left unchanged, and the item is
\* rendered.
C14_EditNotDuplicateChecked ==
    [][Answers("update_item", "PUT") =>
       \A list_id \in ListIds, item_id \in ItemIds,
          text \in TextInputs \cup OrderTextInputs :
          ( /\ update_item("PUT", list_id, item_id, text)
            /\ Truthy(text)
            /\ ItemRows(items, list_id, item_id) # {} )
          => ( /\ \A i \in ItemRows(items, list_id, item_id) :
                      [i EXCEPT !.text = text.value, !.updated_at = now]
                          \in items'
               /\ \A i \in items : i.id # item_id => i \in items'
               /\ Cardinality(items') = Cardinality(items)
               /\ TouchedNow(lists', list_id)
               /\ last'.body = "item" /\ last'.item = item_id )]_vars

\* C14 witness: an edit-commit gave an item the text that an older item of
\* the same list has in the other case, and the older item was not written.
C14_Witness ==
    /\ last.op = "update_item" /\ last.method = "PUT" /\ last.status = 200
    /\ \E i, j \in items :
           /\ i.id = last.item /\ j.id # i.id
           /\ j.todo_list = i.todo_list
           /\ lower(i.text) = lower(j.text) /\ i.text # j.text
           /\ i.created_at < now /\ i.updated_at = now
           /\ j.updated_at < now

\* C15: an edit-form request and an edit-cancel request leave every list and
\* every item unchanged (texts and updated_at included), and for an item of
\* the addressed list they render that item.
C15_EditFormAndCancelArePureReads ==
    [][(Answers("edit_item_form", "GET") \/ Answers("cancel_edit", "GET")) =>
       /\ lists' = lists
       /\ items' = items
       /\ \A list_id \in ListIds, item_id \in ItemIds :
             ( /\ edit_item_form(list_id, item_id) \/ cancel_edit(list_id, item_id)
               /\ ItemRows(items, list_id, item_id) # {} )
             => ( /\ last'.status = 200
                  /\ last'.item = item_id
                  /\ last'.body \in {"form", "item"} )]_vars

\* C15 witness: an edit form was rendered for an item that was last written,
\* as its list was, at an earlier time than the request.
C15_Witness ==
    /\ last.op = "edit_item_form" /\ last.status = 200
    /\ \E i \in items :
           /\ i.id = last.item
           /\ i.updated_at < now
           /\ \E r \in ListRows(lists, i.todo_list) : r.updated_at < now

\* C16: a delete-item request for an item id that no stored item has is
\* answered not-found, not with a success, and leaves every list and every
\* item unchanged.
C16_DeleteMissingItemIsNotFound ==
    [][Answers("delete_item", "DELETE") =>
       \A list_id \in ListIds, item_id \in ItemIds :
          ( /\ delete_item("DELETE", list_id, item_id)
            /\ \A i \in items : i.id # item_id )
          => ( /\ last'.status = 404
               /\ last'.status \notin 200..299
               /\ lists' = lists
               /\ items' = items )]_vars

\* C16 witness: a delete-item request was answered not-found when the only
\* item ever created had been deleted, and its list was last written before
\* the request.
C16_Witness ==
    /\ last.op = "delete_item" /\ last.method = "DELETE" /\ last.status = 404
    /\ next_item = 1 /\ items = {}
    /\ \E r \in lists : r.created_at < r.updated_at /\ r.updated_at < now

\* The row of TodoList is stored in ls, whatever its updated_at.
Kept(ls, r) ==
    \E r2 \in ls :
        r2.id = r.id /\ r2.name = r.name /\ r2.created_at = r.created_at

\* C17: a stored list is removed only by a create-list POST, and then only
\* when its updated_at is more than 30 days old; every other request keeps
\* every list, and a delete-item request that removes the last item of a
\* list keeps that list.
C17_ListsRemovedOnlyBySweep ==
    [][/\ \A r \in lists :
             ~Kept(lists', r) =>
                 (Answers("create_list", "POST") /\ Age(r) > thirty_days)
       /\ (Answers("delete_item", "DELETE") /\ last'.body = "empty_state") =>
             \A list_id \in ListIds, item_id \in ItemIds :
                 delete_item("DELETE", list_id, item_id)
                 => ( /\ ListItems(items', list_id) = {}
                      /\ \A r \in ListRows(lists, list_id) : Kept(lists', r)
                      /\ ListRows(lists', list_id) # {} )]_vars

\* C17 witness: a delete-item request removed the last item of a list that
\* is 31 days old by its creation, and the list is stored.
C17_Witness ==
    /\ last.op = "delete_item" /\ last.body = "empty_state"
    /\ \E r \in lists :
           /\ now - r.created_at > thirty_days
           /\ r.updated_at = now
           /\ ListItems(items, r.id) = {}

\* The step is an item operation addressed to the list.
ItemOperation(list_id) ==
    \E item_id \in ItemIds, text \in TextInputs \cup OrderTextInputs :
        \/ add_item("POST", list_id, text)
        \/ edit_item_form(list_id, item_id)
        \/ update_item("PUT", list_id, item_id, text)
        \/ cancel_edit(list_id, item_id)
        \/ delete_item("DELETE", list_id, item_id)

\* The step is an edit-commit or a delete-item addressed to the list and the
\* item.
ItemWrite(list_id, item_id) ==
    \/ \E text \in TextInputs \cup OrderTextInputs :
           update_item("PUT", list_id, item_id, text)
    \/ delete_item("DELETE", list_id, item_id)

\* C18: no step changes the list an item belongs to; an edit-commit or a
\* delete-item addressed to a list and to an item of another list is answered
\* not-found and changes no item and no list; an item operation addressed to
\* a list leaves every other list and the items of every other list
\* unchanged.
C18_ItemsAreScopedToTheirList ==
    [][/\ \A i \in items, j \in items' :
             j.id = i.id => j.todo_list = i.todo_list
       /\ last'.op \in {"add_item", "edit_item_form", "update_item",
                        "cancel_edit", "delete_item"} =>
             \A list_id \in ListIds :
                /\ \A item_id \in ItemIds :
                      ( /\ ItemWrite(list_id, item_id)
                        /\ \E i \in items :
                               i.id = item_id /\ i.todo_list # list_id )
                      => ( /\ last'.status = 404
                           /\ items' = items
                           /\ lists' = lists )
                /\ ItemOperation(list_id) =>
                      /\ {r \in lists' : r.id # list_id} =
                             {r \in lists : r.id # list_id}
                      /\ {i \in items' : i.todo_list # list_id} =
                             {i \in items : i.todo_list # list_id}]_vars

\* C18 witness: an edit-commit was answered not-found while both items are
\* stored in one list and another list is stored: the request addressed the
\* other list.
C18_Witness ==
    /\ last.op = "update_item" /\ last.method = "PUT" /\ last.status = 404
    /\ Cardinality(items) = MaxItems
    /\ \E r, r2 \in lists :
           /\ r # r2
           /\ \A i \in items : i.todo_list = r.id
           /\ r2.updated_at < now

\* The ids of the items of a sequence.  Ids are handed out in the order in
\* which the add-item requests created the items.
ItemIdsOf(s) == [k \in DOMAIN s |-> s[k].id]

\* The orders of the ids in which the items of a list can be shown.
IdOrders(its, list_id) == {ItemIdsOf(s) : s \in ItemOrders(its, list_id)}

\* C19: when every request reads another time, the items that a list-detail
\* view shows come in one order, the order in which they were created, and
\* an edit-commit PUT leaves the order of every list as it was.
C19_ItemsShownInCreationOrder ==
    [][/\ Answers("list_detail", "GET") =>
             \A list_id \in ListIds :
                 list_detail(list_id)
                 => ( /\ Cardinality(ItemOrders(items', list_id)) = 1
                      /\ \A s \in ItemOrders(items', list_id) :
                             \A a, b \in DOMAIN s :
                                 a < b => s[a].id < s[b].id )
       /\ Answers("update_item", "PUT") =>
             \A list_id \in ListIds :
                 IdOrders(items', list_id) = IdOrders(items, list_id)]_vars

\* C19 witness: a detail view showed a list of two items of which the older
\* was written last, by an edit-commit after the newer was created.
C19_Witness ==
    /\ last.op = "list_detail"
    /\ \E r \in lists :
           /\ r.updated_at = now
           /\ \E i, j \in ListItems(items, r.id) :
                  /\ i.id < j.id
                  /\ i.created_at < j.created_at
                  /\ i.updated_at > j.updated_at

\* The lists after the creation of a request, served on its own.
CreatedBy(ls, w) ==
    IF Truthy(inflight[w].name) /\ Truthy(inflight[w].list_id)
    THEN GetOrCreateList(ls, inflight[w].list_id.value,
                         inflight[w].name.value, now)
    ELSE ls

\* C20: when two create-list POSTs that address different lists were served
\* together, neither has failed, and the lists and items stored are those
\* that one sweep of the rows stored when the first arrived, followed by the
\* creations of the two requests, leaves.
C20_RedundantSweepsEqualOneSweep ==
    \A w, v \in Workers :
        ( /\ w # v
          /\ inflight[w].pc = "done" /\ inflight[v].pc = "done"
          /\ inflight[w].list_id # inflight[v].list_id )
        => ( /\ inflight[w].status = 200 /\ inflight[v].status = 200
             /\ lists = CreatedBy(CreatedBy(SweepLists(inflight[w].base_lists,
                                                       now), w), v)
             /\ items = SweepItems(inflight[w].base_items,
                                   inflight[w].base_lists, now) )

\* C21: in every state, the list of every stored item has an updated_at that
\* is not older than the item's updated_at, and a request to add_item that
\* created an item was not answered with an error.
C21_ItemWriteAndListTouchAreAtomic ==
    /\ \A i \in items :
           \A r \in ListRows(lists, i.todo_list) :
               r.updated_at >= i.updated_at
    /\ \A w \in Workers :
           (inflight[w].pc = "done" /\ inflight[w].item # 0)
           => inflight[w].status = 200

\* C23: no two items of a list, each created by an add-item request, have
\* texts that are equal after trimming and case-folding, also when the two
\* requests were served at once.
C23_ConcurrentAddsNeverBothCreate ==
    \A i, j \in items :
        (i # j /\ i.todo_list = j.todo_list)
        => TrimmedFolded(i.text) # TrimmedFolded(j.text)

\* C22, never too early: no step removes a list whose updated_at, the time
\* of its last detail view or write, is less than 30 days old.
C22_ListRemovedOnlyWhenOld ==
    [][\A r \in lists : ~Kept(lists', r) => Age(r) >= thirty_days]_vars

\* C22, eventually: when requests are served one at a time, time keeps
\* advancing and create-list POSTs keep arriving, a list that was last viewed
\* or written more than 30 days before the last day is eventually removed or
\* written again.
C22_AbandonedListIsEventuallyDeleted ==
    \A list_id \in ListIds :
        (\E r \in ListRows(lists, list_id) :
             r.updated_at + thirty_days < MaxTime)
        ~> (\A r \in ListRows(lists, list_id) :
                r.updated_at + thirty_days >= MaxTime)

\* C24, as stated: after a create-list POST that addresses a stored list,
\* whatever its age, that list is stored under the name it had, with the
\* items it had.
C24_CreateNeverDestroysAddressedList ==
    [][Answers("create_list", "POST") =>
       \A list_id \in ListIds, name \in NameInputs :
          create_list("POST", name, Given(list_id))
          => \A r \in ListRows(lists, list_id) :
                 /\ Kept(lists', r)
                 /\ ListItems(items', list_id) = ListItems(items, list_id)]_vars

\* C24, amended: after a create-list POST that addresses a stored list whose
\* updated_at is at most 30 days old, that list is stored exactly as it was,
\* with the items it had; a stored list that is older is deleted with its
\* items, and the list stored under its id afterwards, if any, is a new one
\* that the request created under its own name.
C24_CreateKeepsFreshAddressedList ==
    [][Answers("create_list", "POST") =>
       \A list_id \in ListIds, name \in NameInputs :
          create_list("POST", name, Given(list_id))
          => \A r \in ListRows(lists, list_id) :
                 /\ Age(r) <= thirty_days =>
                        /\ ListRows(lists', list_id) = {r}
                        /\ ListItems(items', list_id) =
                               ListItems(items, list_id)
                 /\ Age(r) > thirty_days =>
                        /\ r \notin lists'
                        /\ ListItems(items', list_id) = {}
                        /\ ListRows(lists', list_id) =
                               IF Truthy(name)
                               THEN {[id |-> list_id, name |-> name.value,
                                      created_at |-> now, updated_at |-> now]}
                               ELSE {}]_vars

\* C24 witness: a create-list POST was answered OK while the only list
\* stored, which is therefore the one it addressed, was created on an earlier
\* day, is 29 days old and has an item.
C24_Witness ==
    /\ last.op = "create_list" /\ last.method = "POST" /\ last.body = "OK"
    /\ Cardinality(lists) = 1
    /\ \E r \in lists :
           /\ r.created_at < now
           /\ Age(r) = 29
           /\ ListItems(items, r.id) # {}

\* The request creates its list when that list is not stored: a list-detail
\* view, or a create-list POST with its two fields.
Materializes(w) == Truthy(inflight[w].name) /\ Truthy(inflight[w].list_id)

\* C25: when two requests that create their list when it is not stored were
\* served together, for the same id, which no stored list had when the first
\* of them arrived, both were answered without error and exactly one list
\* with that id is stored.
C25_GetOrCreateIsRaceFree ==
    \A w, v \in Workers :
        ( /\ w # v
          /\ inflight[w].pc = "done" /\ inflight[v].pc = "done"
          /\ Materializes(w) /\ Materializes(v)
          /\ inflight[w].list_id = inflight[v].list_id
          /\ ListRows(inflight[w].base_lists, inflight[w].list_id.value) = {} )
        => ( /\ inflight[w].status = 200 /\ inflight[v].status = 200
             /\ Cardinality(ListRows(lists, inflight[w].list_id.value)) = 1 )

====
